---- MODULE Spec2Model ----
(***************************************************************************)
(* Model of the diff renderer (renderDiff and its helpers) and of the lazy *)
(* loading of the provider modules (lazyStream) of pi-mono.                *)
(*                                                                         *)
(* A string is a sequence of one-character strings.  A styled string is a  *)
(* sequence of characters and style markers: a marker is a string of more  *)
(* than one character that stands for the escape sequence a theme function *)
(* writes around a span of text.                                           *)
(***************************************************************************)
EXTENDS Integers, Sequences, FiniteSets, TLC

VARIABLES
    diffText,   \* renderDiff's argument diffText
    filePath,   \* options.filePath, NoPath when absent
    lines,      \* const lines = diffText.split("\n")
    lang,       \* const lang, NoLang when undefined
    highlighter, \* what highlightCode does in this call of renderDiff
    i,          \* the cursor of the main loop (0-based, as in the source)
    result,     \* const result: string[]
    output,     \* the string renderDiff returns
    pc,         \* "start", "loop", "done" (returned) or "failed" (an exception left renderDiff)
    calls,      \* history: the calls made to Diff.diffWords and highlightCode, in order
    oldContent, \* renderIntraLineDiff's argument oldContent
    newContent, \* renderIntraLineDiff's argument newContent
    wordDiff,   \* const wordDiff = Diff.diffWords(oldContent, newContent)
    intraLine,  \* the { removedLine, addedLine } renderIntraLineDiff returns
    ipc,        \* "idle", "call" (renderIntraLineDiff about to run) or "returned"
    parseLine,  \* parseDiffLine's argument line
    parseResult, \* what parseDiffLine returns
    ppc,        \* "idle", "call" (parseDiffLine about to run) or "returned"
    moduleCache, \* const moduleCache: for each module key the promise stored, 0 for none
    promises,   \* the promises the loaders returned, in the order of their creation
    lazyArgs,   \* for each call of lazyStream its arguments moduleKey, fnName, model,
                \* and the state of the promise moduleCache.get found ("absent" for none)
    lpc,        \* for each call of lazyStream where it is: "uncalled", "awaitMod",
                \* "iterating" or "finished"
    mod,        \* for each call its local mod, a promise, 0 before the call
    real,       \* for each call the events its stream, m[fnName](...), has yielded so far
    proxy,      \* for each call the events pushed to its proxy, in order
    caught,     \* for each call the err its catch clause caught, NoFailure for none
    proxyReturned \* for each call whether lazyStream has returned the proxy

renderVars == <<diffText, filePath, lines, lang, highlighter, i, result, output, pc, calls>>
intraVars == <<oldContent, newContent, wordDiff, intraLine, ipc>>
parseVars == <<parseLine, parseResult, ppc>>
lazyVars == <<moduleCache, promises, lazyArgs, lpc, mod, real, proxy, caught, proxyReturned>>
vars == <<diffText, filePath, lines, lang, highlighter, i, result, output, pc, calls,
          oldContent, newContent, wordDiff, intraLine, ipc, parseLine, parseResult, ppc,
          moduleCache, promises, lazyArgs, lpc, mod, real, proxy, caught, proxyReturned>>

----------------------------------------------------------------------------
(* Bounds of the model *)

\* the largest number of lines of an input text
MaxLines == 4
\* the largest number of parts of a word-level diff
MaxParts == 3
\* the longest content handed to renderIntraLineDiff on its own
MaxContentLen == 3
\* the longest line handed to parseDiffLine on its own
MaxLineLen == 4
\* the number of calls of lazyStream
MaxCalls == 2
\* the largest number of events of a provider's stream
MaxEvents == 2

----------------------------------------------------------------------------
(* Characters *)

\* the characters the regular expressions' \s matches, among those of the model
Whitespace == {" ", "\t", "\r"}
\* the characters \d matches
Digits == {"0", "1", "2", "3", "4", "5", "6", "7", "8", "9"}
\* the characters the regular expressions' . does not match
LineTerminators == {"\n", "\r"}

\* the markers of theme.fg, theme.inverse and highlightCode
FgOpen == {"<toolDiffContext>", "<toolDiffRemoved>", "<toolDiffAdded>"}
Markers == FgOpen \cup {"</fg>", "<inverse>", "</inverse>", "<hl>", "</hl>"}

\* the elements of a sequence
Range(s) == {s[k] : k \in 1..Len(s)}

\* s from its n-th element on (1-based), the empty sequence beyond its end
Drop(s, n) == IF n > Len(s) THEN <<>> ELSE SubSeq(s, n, Len(s))
\* the first n elements of s
Take(s, n) == SubSeq(s, 1, n)

\* the length of the longest prefix of s whose characters are all in set
RECURSIVE RunLength(_, _)
RunLength(s, set) ==
    IF s # <<>> /\ Head(s) \in set THEN 1 + RunLength(Tail(s), set) ELSE 0

\* text.split(sep) for a one-character separator
RECURSIVE Split(_, _)
Split(text, sep) ==
    LET n == RunLength(text, Range(text) \ {sep})
    IN  IF n = Len(text) THEN <<text>>
        ELSE <<Take(text, n)>> \o Split(Drop(text, n + 2), sep)

\* Join with the separator after every part, the last one too
RECURSIVE JoinTrailing(_, _)
JoinTrailing(parts, sep) ==
    IF parts = <<>> THEN <<>>
    ELSE parts[1] \o <<sep>> \o JoinTrailing(Tail(parts), sep)

\* parts.join(sep)
RECURSIVE Join(_, _)
Join(parts, sep) ==
    IF parts = <<>> THEN <<>>
    ELSE IF Len(parts) = 1 THEN parts[1]
    ELSE parts[1] \o <<sep>> \o Join(Tail(parts), sep)

\* a styled string with its markers removed
Strip(s) == SelectSeq(s, LAMBDA c : c \notin Markers)

----------------------------------------------------------------------------
(* The theme and the other collaborators renderDiff imports *)

\* theme.fg(color, text): text inside the colour's escape sequences
themeFg(color, text) ==
    <<CASE color = "toolDiffContext" -> "<toolDiffContext>"
        [] color = "toolDiffRemoved" -> "<toolDiffRemoved>"
        [] color = "toolDiffAdded" -> "<toolDiffAdded>">> \o text \o <<"</fg>">>

\* theme.inverse(text): text inside the inversion escape sequences
themeInverse(text) == <<"<inverse>">> \o text \o <<"</inverse>">>

\* options.filePath absent, and the paths of the model
NoPath == "undefined"
FilePaths == {NoPath, "a.ts", "a.xyz"}
\* const lang undefined
NoLang == "undefined"

\* getLanguageFromPath(filePath): a language identifier, or none for an
\* unrecognised path
getLanguageFromPath(path) == IF path = "a.ts" THEN "typescript" ELSE NoLang

\* What a call highlightCode(content, lang) can do: return the line styled
\* (the same visible characters inside syntax markers), return no line at all,
\* or throw.  A highlighter that degrades by returning the line as it is
\* renders as one that returns no line does.
HighlightKinds == {"styled", "empty", "throw"}
highlightCode(content, kind) ==
    IF kind = "styled" THEN <<(<<"<hl>">> \o content \o <<"</hl>">>)>> ELSE <<>>

\* A part of a word-level diff, as Diff.diffWords returns it
Part(value, added, removed) == [value |-> value, added |-> added, removed |-> removed]

\* What Diff.diffWords(oldText, newText) can return: every sequence of at most
\* k parts with non-empty values in which the unchanged and the removed parts
\* concatenate to oldText and the unchanged and the added parts to newText.
RECURSIVE DiffParts(_, _, _)
DiffParts(oldText, newText, k) ==
    IF oldText = <<>> /\ newText = <<>> THEN {<<>>}
    ELSE IF k = 0 THEN {}
    ELSE LET common == {n \in 1..Len(oldText) :
                           n <= Len(newText) /\ Take(oldText, n) = Take(newText, n)}
         IN  UNION ({{<<Part(Take(oldText, n), FALSE, FALSE)>> \o rest :
                        rest \in DiffParts(Drop(oldText, n + 1), Drop(newText, n + 1), k - 1)} :
                     n \in common}
              \cup {{<<Part(Take(oldText, n), FALSE, TRUE)>> \o rest :
                        rest \in DiffParts(Drop(oldText, n + 1), newText, k - 1)} :
                     n \in 1..Len(oldText)}
              \cup {{<<Part(Take(newText, n), TRUE, FALSE)>> \o rest :
                        rest \in DiffParts(oldText, Drop(newText, n + 1), k - 1)} :
                     n \in 1..Len(newText)})

diffWords(oldText, newText) == DiffParts(oldText, newText, MaxParts)

----------------------------------------------------------------------------
(* The helpers of renderDiff *)

\* parseDiffLine's null
null == [prefix |-> "", lineNum |-> <<>>, content |-> <<>>]

\* whether the regular expression's (.*)$ matches the whole of rest
DotStarMatches(rest) == \A k \in 1..Len(rest) : rest[k] \notin LineTerminators

\* parseDiffLine whose match does not backtrack out of the greedy \s*\d*
parseDiffLineGreedyOnly(line) ==
    IF line = <<>> \/ line[1] \notin ({"+", "-"} \cup Whitespace) THEN null
    ELSE LET w == RunLength(Drop(line, 2), Whitespace)
             d == RunLength(Drop(line, 2 + w), Digits)
             sep == 2 + w + d
         IN  IF sep <= Len(line) /\ line[sep] \in Whitespace
                 /\ DotStarMatches(Drop(line, sep + 1))
             THEN [prefix |-> line[1], lineNum |-> SubSeq(line, 2, sep - 1),
                   content |-> Drop(line, sep + 1)]
             ELSE null

\* parseDiffLine(line): line.match(/^([+-\s])(\s*\d*)\s(.*)$/).  The greedy
\* \s*\d* takes the whole whitespace run and the whole digit run after the
\* prefix; if no whitespace follows them, the match backtracks and gives the
\* last character of the whitespace run to the separating \s.
parseDiffLine(line) ==
    IF line = <<>> \/ line[1] \notin ({"+", "-"} \cup Whitespace) THEN null
    ELSE LET w == RunLength(Drop(line, 2), Whitespace)
             d == RunLength(Drop(line, 2 + w), Digits)
             sep == 2 + w + d
         IN  IF sep <= Len(line) /\ line[sep] \in Whitespace
                 /\ DotStarMatches(Drop(line, sep + 1))
             THEN [prefix |-> line[1], lineNum |-> SubSeq(line, 2, sep - 1),
                   content |-> Drop(line, sep + 1)]
             ELSE IF w >= 1 /\ DotStarMatches(Drop(line, 2 + w))
             THEN [prefix |-> line[1], lineNum |-> SubSeq(line, 2, w),
                   content |-> Drop(line, 2 + w)]
             ELSE null

\* highlightLine(content, lang), given what its call of highlightCode returns
highlightLine(content, language, returned) ==
    IF language = NoLang THEN content
    ELSE IF returned # <<>> THEN returned[1] ELSE content

\* replaceTabs replacing the tab character instead of the escape sequence
RECURSIVE replaceTabsControl(_)
replaceTabsControl(text) ==
    IF text = <<>> THEN <<>>
    ELSE IF text[1] = "\t" THEN <<" ", " ", " ">> \o replaceTabsControl(Tail(text))
    ELSE <<text[1]>> \o replaceTabsControl(Tail(text))

\* replaceTabs(text): text.replace(/\\t/g, "   ")
RECURSIVE replaceTabs(_)
replaceTabs(text) ==
    IF text = <<>> THEN <<>>
    ELSE IF Len(text) >= 2 /\ text[1] = "\\" /\ text[2] = "t"
    THEN <<" ", " ", " ">> \o replaceTabs(Drop(text, 3))
    ELSE <<text[1]>> \o replaceTabs(Tail(text))

\* IntraLineStep that strips the leading whitespace of the first differing part
\* without appending it
IntraLineStepDropsWs(acc, part) ==
    LET leadingWs == Take(part.value, RunLength(part.value, Whitespace))
        rest == Drop(part.value, Len(leadingWs) + 1)
    IN  IF part.removed
        THEN LET value == IF acc.isFirstRemoved THEN rest ELSE part.value
             IN  [acc EXCEPT !.removedLine =
                                 @ \o (IF value # <<>> THEN themeInverse(value) ELSE <<>>),
                             !.isFirstRemoved = FALSE]
        ELSE IF part.added
        THEN LET value == IF acc.isFirstAdded THEN rest ELSE part.value
             IN  [acc EXCEPT !.addedLine =
                                 @ \o (IF value # <<>> THEN themeInverse(value) ELSE <<>>),
                             !.isFirstAdded = FALSE]
        ELSE [acc EXCEPT !.removedLine = @ \o part.value,
                         !.addedLine = @ \o part.value]

\* IntraLineStep that keeps the exemption for the next differing part when the
\* first one held whitespace only
IntraLineStepKeepsFirst(acc, part) ==
    LET leadingWs == Take(part.value, RunLength(part.value, Whitespace))
        rest == Drop(part.value, Len(leadingWs) + 1)
    IN  IF part.removed
        THEN LET value == IF acc.isFirstRemoved THEN rest ELSE part.value
                 plain == IF acc.isFirstRemoved THEN leadingWs ELSE <<>>
             IN  [acc EXCEPT !.removedLine =
                                 @ \o plain \o (IF value # <<>> THEN themeInverse(value) ELSE <<>>),
                             !.isFirstRemoved = acc.isFirstRemoved /\ value = <<>>]
        ELSE IF part.added
        THEN LET value == IF acc.isFirstAdded THEN rest ELSE part.value
                 plain == IF acc.isFirstAdded THEN leadingWs ELSE <<>>
             IN  [acc EXCEPT !.addedLine =
                                 @ \o plain \o (IF value # <<>> THEN themeInverse(value) ELSE <<>>),
                             !.isFirstAdded = acc.isFirstAdded /\ value = <<>>]
        ELSE [acc EXCEPT !.removedLine = @ \o part.value,
                         !.addedLine = @ \o part.value]

\* one iteration of renderIntraLineDiff's loop over the parts
IntraLineStep(acc, part) ==
    LET leadingWs == Take(part.value, RunLength(part.value, Whitespace))
        rest == Drop(part.value, Len(leadingWs) + 1)
    IN  IF part.removed
        THEN LET value == IF acc.isFirstRemoved THEN rest ELSE part.value
                 plain == IF acc.isFirstRemoved THEN leadingWs ELSE <<>>
             IN  [acc EXCEPT !.removedLine =
                                 @ \o plain \o (IF value # <<>> THEN themeInverse(value) ELSE <<>>),
                             !.isFirstRemoved = FALSE]
        ELSE IF part.added
        THEN LET value == IF acc.isFirstAdded THEN rest ELSE part.value
                 plain == IF acc.isFirstAdded THEN leadingWs ELSE <<>>
             IN  [acc EXCEPT !.addedLine =
                                 @ \o plain \o (IF value # <<>> THEN themeInverse(value) ELSE <<>>),
                             !.isFirstAdded = FALSE]
        ELSE [acc EXCEPT !.removedLine = @ \o part.value,
                         !.addedLine = @ \o part.value]

RECURSIVE IntraLineLoop(_, _)
IntraLineLoop(acc, parts) ==
    IF parts = <<>> THEN acc
    ELSE IntraLineLoop(IntraLineStep(acc, Head(parts)), Tail(parts))

\* renderIntraLineDiff(oldContent, newContent), given the parts its call of
\* Diff.diffWords returns
renderIntraLineDiff(parts) ==
    LET acc == IntraLineLoop([removedLine |-> <<>>, addedLine |-> <<>>,
                              isFirstRemoved |-> TRUE, isFirstAdded |-> TRUE], parts)
    IN  [removedLine |-> acc.removedLine, addedLine |-> acc.addedLine]

\* collectRun that collects nothing, the line at the cursor included
collectRunNothing(ls, at, prefix) ==
    <<>>

\* collectRun that stops after the first line of the run
collectRunOne(ls, at, prefix) ==
    IF at < Len(ls)
    THEN LET p == parseDiffLine(ls[at + 1])
         IN  IF p = null \/ p.prefix # prefix THEN <<>>
             ELSE <<[lineNum |-> p.lineNum, content |-> p.content]>>
    ELSE <<>>

\* the two while loops that collect a run: the lines from the 0-based
\* position at on that parse and carry the prefix
RECURSIVE collectRun(_, _, _)
collectRun(ls, at, prefix) ==
    IF at < Len(ls)
    THEN LET p == parseDiffLine(ls[at + 1])
         IN  IF p = null \/ p.prefix # prefix THEN <<>>
             ELSE <<[lineNum |-> p.lineNum, content |-> p.content]>>
                      \o collectRun(ls, at + 1, prefix)
    ELSE <<>>

\* a line rendered outside intra-line mode: the coloured sign and line number,
\* a space, the highlighted content
renderLine(color, sign, lineNum, highlighted) ==
    themeFg(color, <<sign>> \o lineNum) \o <<" ">> \o highlighted

\* renderIntraLine with the padding of the line number trimmed
renderIntraLineTrimmed(color, sign, lineNum, intra) ==
    themeFg(color, <<sign>> \o SelectSeq(lineNum, LAMBDA c : c \notin Whitespace)
                       \o <<" ">> \o intra)

\* a line rendered in intra-line mode: all of it in the category colour
renderIntraLine(color, sign, lineNum, intra) ==
    themeFg(color, <<sign>> \o lineNum \o <<" ">> \o intra)

\* the record of a call to a collaborator
Call(fn, at, text, text2, ret) ==
    [fn |-> fn, line |-> at, text |-> text, text2 |-> text2, ret |-> ret]

\* what highlightCode can do in a call of renderDiff: it is not called when
\* no language is resolved
KindsFor(language) == IF language = NoLang THEN {"none"} ELSE HighlightKinds

\* renderRun that puts each rendered line before the ones rendered so far
RECURSIVE renderRunReversed(_, _, _, _, _, _)
renderRunReversed(run, color, sign, language, at, kind) ==
    IF run = <<>> THEN [threw |-> FALSE, rendered |-> <<>>, made |-> <<>>]
    ELSE LET content == replaceTabs(run[1].content)
             made == IF language = NoLang THEN <<>>
                     ELSE <<Call("highlightCode", at, content, <<>>, kind)>>
         IN  IF language # NoLang /\ kind = "throw"
             THEN [threw |-> TRUE, rendered |-> <<>>, made |-> made]
             ELSE LET highlighted ==
                          highlightLine(content, language, highlightCode(content, kind))
                      rest == renderRunReversed(Tail(run), color, sign, language, at + 1,
                                                kind)
                  IN  [threw |-> rest.threw,
                       rendered |-> rest.rendered
                                        \o <<renderLine(color, sign, run[1].lineNum,
                                                        highlighted)>>,
                       made |-> made \o rest.made]

\* The lines of a run rendered one after the other from the 0-based position
\* at, kind being what highlightCode does: the rendered lines, the calls made,
\* and whether a call threw (which ends the rendering).
RECURSIVE renderRun(_, _, _, _, _, _)
renderRun(run, color, sign, language, at, kind) ==
    IF run = <<>> THEN [threw |-> FALSE, rendered |-> <<>>, made |-> <<>>]
    ELSE LET content == replaceTabs(run[1].content)
             made == IF language = NoLang THEN <<>>
                     ELSE <<Call("highlightCode", at, content, <<>>, kind)>>
         IN  IF language # NoLang /\ kind = "throw"
             THEN [threw |-> TRUE, rendered |-> <<>>, made |-> made]
             ELSE LET highlighted ==
                          highlightLine(content, language, highlightCode(content, kind))
                      rest == renderRun(Tail(run), color, sign, language, at + 1, kind)
                  IN  [threw |-> rest.threw,
                       rendered |-> <<renderLine(color, sign, run[1].lineNum, highlighted)>>
                                        \o rest.rendered,
                       made |-> made \o rest.made]

----------------------------------------------------------------------------
(* lazyStream: the module cache before any call *)

\* the module keys and the name of the provider function of the calls
ModuleKeys == {"anthropic", "google"}
FnNames == {"streamSimple"}
\* the calls of lazyStream
Callers == 1..MaxCalls

\* What a promise is rejected with and what a provider function or its stream
\* throws: an Error with a message, or a value that is no Error (a number).
Thrown == {[isError |-> TRUE, message |-> "boom", value |-> 0],
           [isError |-> FALSE, message |-> "", value |-> 42]}
\* the TypeError of calling m[fnName] when the module has no such function
NotAFunction == [isError |-> TRUE, message |-> "m[fnName] is not a function", value |-> 0]
\* no failure
NoFailure == [isError |-> FALSE, message |-> "", value |-> 0]

\* line 112 and the state before any call of lazyStream: an empty cache
NoLazyStream ==
    /\ moduleCache = [k \in ModuleKeys |-> 0]
    /\ promises = <<>>
    /\ lazyArgs = [c \in Callers |->
                      [moduleKey |-> "", fnName |-> "", model |-> "", found |-> ""]]
    /\ lpc = [c \in Callers |-> "uncalled"]
    /\ mod = [c \in Callers |-> 0]
    /\ real = [c \in Callers |-> <<>>]
    /\ proxy = [c \in Callers |-> <<>>]
    /\ caught = [c \in Callers |-> NoFailure]
    /\ proxyReturned = [c \in Callers |-> FALSE]

----------------------------------------------------------------------------
(* renderDiff *)

\* the lines an input text is made of
LinePool ==
    { <<" ", "1", " ", "a">>,            \* context
      <<"-", "1", " ", "a">>,            \* removed
      <<"+", "1", " ", "a">>,            \* added, the content of the removed line
      <<"+", " ", "2", " ", "\\", "t">>, \* added, padded number, a tab escape as content
      <<"+", "\\", "t">> }               \* no diff line, with a tab escape

\* the text whose lines are ls
RECURSIVE TextOf(_)
TextOf(ls) == IF Len(ls) = 1 THEN ls[1] ELSE ls[1] \o <<"\n">> \o TextOf(Tail(ls))

\* the input texts: the empty text and the texts of 1 to MaxLines lines
Inputs ==
    {<<>>} \cup {TextOf(ls) : ls \in UNION {[1..n -> LinePool] : n \in 1..MaxLines}}

Init ==
    /\ diffText \in Inputs
    /\ filePath \in FilePaths
    /\ lines = <<>>
    /\ lang = NoLang
    /\ highlighter = "none"
    /\ i = 0
    /\ result = <<>>
    /\ output = <<>>
    /\ pc = "start"
    /\ calls = <<>>
    /\ oldContent = <<>>
    /\ newContent = <<>>
    /\ wordDiff = <<>>
    /\ intraLine = [removedLine |-> <<>>, addedLine |-> <<>>]
    /\ ipc = "idle"
    /\ parseLine = <<>>
    /\ parseResult = null
    /\ ppc = "idle"
    /\ NoLazyStream

\* lines 90-94: split the text, resolve the language, start the loop
Begin ==
    /\ pc = "start"
    /\ lines' = Split(diffText, "\n")
    /\ lang' = IF filePath # NoPath THEN getLanguageFromPath(filePath) ELSE NoLang
    /\ highlighter' \in KindsFor(lang')
    /\ result' = <<>>
    /\ i' = 0
    /\ pc' = "loop"
    /\ UNCHANGED <<diffText, filePath, output, calls>>
    /\ UNCHANGED <<intraVars, parseVars, lazyVars>>

\* RawLine with the tab escapes of the line replaced
RawLineReplacingTabs ==
    /\ pc = "loop"
    /\ i < Len(lines)
    /\ parseDiffLine(lines[i + 1]) = null
    /\ result' = Append(result, themeFg("toolDiffContext", replaceTabs(lines[i + 1])))
    /\ i' = i + 1
    /\ UNCHANGED <<diffText, filePath, lines, lang, highlighter, output, pc, calls>>
    /\ UNCHANGED <<intraVars, parseVars, lazyVars>>

\* lines 99-103: a line that does not parse
RawLine ==
    /\ pc = "loop"
    /\ i < Len(lines)
    /\ parseDiffLine(lines[i + 1]) = null
    /\ result' = Append(result, themeFg("toolDiffContext", lines[i + 1]))
    /\ i' = i + 1
    /\ UNCHANGED <<diffText, filePath, lines, lang, highlighter, output, pc, calls>>
    /\ UNCHANGED <<intraVars, parseVars, lazyVars>>

\* Iteration that catches what a call throws and goes on to the next lines
IterationCatching(threw, rendered, next, made) ==
    /\ calls' = calls \o made
    /\ pc' = pc
    /\ result' = result \o rendered
    /\ i' = next
    /\ UNCHANGED <<diffText, filePath, lines, lang, highlighter, output>>
    /\ UNCHANGED <<intraVars, parseVars, lazyVars>>

\* Iteration that leaves the cursor on the last line it rendered when it
\* rendered more than one
IterationRepeating(threw, rendered, next, made) ==
    /\ calls' = calls \o made
    /\ IF threw
       THEN /\ pc' = "failed"
            /\ UNCHANGED <<result, i>>
       ELSE /\ pc' = pc
            /\ result' = result \o rendered
            /\ i' = IF Len(rendered) > 1 THEN next - 1 ELSE next
    /\ UNCHANGED <<diffText, filePath, lines, lang, highlighter, output>>
    /\ UNCHANGED <<intraVars, parseVars, lazyVars>>

\* the effect of an iteration that renders the lines rendered, moves the
\* cursor to next and makes the calls made, or fails in a call that threw
Iteration(threw, rendered, next, made) ==
    /\ calls' = calls \o made
    /\ IF threw
       THEN /\ pc' = "failed"
            /\ UNCHANGED <<result, i>>
       ELSE /\ pc' = pc
            /\ result' = result \o rendered
            /\ i' = next
    /\ UNCHANGED <<diffText, filePath, lines, lang, highlighter, output>>
    /\ UNCHANGED <<intraVars, parseVars, lazyVars>>

\* intraLineMode pairing any two runs of the same length
intraLineModeSameLength(removedLines, addedLines) ==
    Len(removedLines) = Len(addedLines)

\* intraLineMode looking at the added run alone
intraLineModeOneAdded(removedLines, addedLines) ==
    Len(addedLines) = 1

\* intraLineMode that never chooses the word-level diff
intraLineModeNever(removedLines, addedLines) ==
    FALSE

\* line 126: whether a removed run and the added run after it are rendered
\* with the word-level diff
intraLineMode(removedLines, addedLines) ==
    Len(removedLines) = 1 /\ Len(addedLines) = 1

\* lines 105-151: a removed run and the added run after it
RemovedBlock ==
    /\ pc = "loop"
    /\ i < Len(lines)
    /\ parseDiffLine(lines[i + 1]).prefix = "-"
    /\ LET removedLines == collectRun(lines, i, "-")
           addedLines == collectRun(lines, i + Len(removedLines), "+")
           next == i + Len(removedLines) + Len(addedLines)
       IN  IF intraLineMode(removedLines, addedLines)
           THEN LET removed == removedLines[1]
                    added == addedLines[1]
                    old == replaceTabs(removed.content)
                    new == replaceTabs(added.content)
                IN  \E threw \in BOOLEAN :
                        IF threw
                        THEN Iteration(TRUE, <<>>, next,
                                       <<Call("diffWords", i, old, new, "throw")>>)
                        ELSE \E parts \in diffWords(old, new) :
                                 LET intra == renderIntraLineDiff(parts)
                                 IN  Iteration(FALSE,
                                         <<renderIntraLine("toolDiffRemoved", "-",
                                                           removed.lineNum, intra.removedLine),
                                           renderIntraLine("toolDiffAdded", "+",
                                                           added.lineNum, intra.addedLine)>>,
                                         next,
                                         <<Call("diffWords", i, old, new, "parts")>>)
           ELSE LET rem == renderRun(removedLines, "toolDiffRemoved", "-", lang, i,
                                     highlighter)
                    add == renderRun(addedLines, "toolDiffAdded", "+", lang,
                                     i + Len(removedLines), highlighter)
                IN  IF rem.threw
                    THEN Iteration(TRUE, <<>>, next, rem.made)
                    ELSE Iteration(add.threw, rem.rendered \o add.rendered, next,
                                   rem.made \o add.made)

\* lines 152-157: an added line with no removed run before it
AddedLine ==
    /\ pc = "loop"
    /\ i < Len(lines)
    /\ parseDiffLine(lines[i + 1]).prefix = "+"
    /\ LET parsed == parseDiffLine(lines[i + 1])
           one == renderRun(<<[lineNum |-> parsed.lineNum, content |-> parsed.content]>>,
                            "toolDiffAdded", "+", lang, i, highlighter)
       IN  Iteration(one.threw, one.rendered, i + 1, one.made)

\* lines 158-164: a context line
ContextLine ==
    /\ pc = "loop"
    /\ i < Len(lines)
    /\ parseDiffLine(lines[i + 1]) # null
    /\ parseDiffLine(lines[i + 1]).prefix \notin {"-", "+"}
    /\ LET parsed == parseDiffLine(lines[i + 1])
           one == renderRun(<<[lineNum |-> parsed.lineNum, content |-> parsed.content]>>,
                            "toolDiffContext", " ", lang, i, highlighter)
       IN  Iteration(one.threw, one.rendered, i + 1, one.made)

\* line 167: the loop is over, the rendered lines are joined and returned
Return ==
    /\ pc = "loop"
    /\ i >= Len(lines)
    /\ output' = Join(result, "\n")
    /\ pc' = "done"
    /\ UNCHANGED <<diffText, filePath, lines, lang, highlighter, i, result, calls>>
    /\ UNCHANGED <<intraVars, parseVars, lazyVars>>

Next == Begin \/ RawLine \/ RemovedBlock \/ AddedLine \/ ContextLine \/ Return

Spec == Init /\ [][Next]_vars

----------------------------------------------------------------------------
(* renderIntraLineDiff on its own *)

\* the characters of the contents: a whitespace character and a letter
IntraAlphabet == {" ", "a"}
Contents == UNION {[1..n -> IntraAlphabet] : n \in 0..MaxContentLen}

InitIntra ==
    /\ oldContent \in Contents
    /\ newContent \in Contents
    /\ wordDiff = <<>>
    /\ intraLine = [removedLine |-> <<>>, addedLine |-> <<>>]
    /\ ipc = "call"
    /\ diffText = <<>>
    /\ filePath = NoPath
    /\ lines = <<>>
    /\ lang = NoLang
    /\ highlighter = "none"
    /\ i = 0
    /\ result = <<>>
    /\ output = <<>>
    /\ pc = "idle"
    /\ calls = <<>>
    /\ parseLine = <<>>
    /\ parseResult = null
    /\ ppc = "idle"
    /\ NoLazyStream

\* lines 36-76: one call of renderIntraLineDiff(oldContent, newContent)
RenderIntraLineDiffCall ==
    /\ ipc = "call"
    /\ \E parts \in diffWords(oldContent, newContent) :
           /\ wordDiff' = parts
           /\ intraLine' = renderIntraLineDiff(parts)
    /\ ipc' = "returned"
    /\ UNCHANGED <<oldContent, newContent>>
    /\ UNCHANGED <<renderVars, parseVars, lazyVars>>

NextIntra == RenderIntraLineDiffCall

SpecIntra == InitIntra /\ [][NextIntra]_vars

----------------------------------------------------------------------------
(* parseDiffLine on its own *)

\* the characters of the lines: the signs, three whitespace characters (the
\* carriage return is a line terminator too), a digit and a letter
ParseAlphabet == {"+", "-", " ", "\t", "\r", "1", "a"}
Lines == UNION {[1..n -> ParseAlphabet] : n \in 0..MaxLineLen}

InitParse ==
    /\ parseLine \in Lines
    /\ parseResult = null
    /\ ppc = "call"
    /\ diffText = <<>>
    /\ filePath = NoPath
    /\ lines = <<>>
    /\ lang = NoLang
    /\ highlighter = "none"
    /\ i = 0
    /\ result = <<>>
    /\ output = <<>>
    /\ pc = "idle"
    /\ calls = <<>>
    /\ oldContent = <<>>
    /\ newContent = <<>>
    /\ wordDiff = <<>>
    /\ intraLine = [removedLine |-> <<>>, addedLine |-> <<>>]
    /\ ipc = "idle"
    /\ NoLazyStream

\* lines 8-12: one call of parseDiffLine(line)
ParseDiffLineCall ==
    /\ ppc = "call"
    /\ parseResult' = parseDiffLine(parseLine)
    /\ ppc' = "returned"
    /\ UNCHANGED parseLine
    /\ UNCHANGED <<renderVars, intraVars, lazyVars>>

NextParse == ParseDiffLineCall

SpecParse == InitParse /\ [][NextParse]_vars

----------------------------------------------------------------------------
(* lazyStream *)

\* String(value) for the values thrown
String(value) == IF value = 42 THEN "42" ELSE "0"

\* errorMessage that reads the message of whatever was thrown
errorMessageOfAny(err) == err.message

\* line 133: err instanceof Error ? err.message : String(err)
errorMessage(err) == IF err.isError THEN err.message ELSE String(err.value)

\* lines 115-136: the event emitError pushes
ErrorEvent(model, err) ==
    [type |-> "error",
     reason |-> "error",
     error |-> [role |-> "assistant", content |-> <<>>, model |-> model,
                usage |-> [input |-> 0, output |-> 0, cacheRead |-> 0, cacheWrite |-> 0,
                           totalTokens |-> 0, cost |-> 0],
                stopReason |-> "error", errorMessage |-> errorMessage(err)]]

\* lines 114-137: emitError(proxy, model, err), pushed being the events pushed
\* to the proxy so far
emitError(pushed, model, err) == Append(pushed, ErrorEvent(model, err))

\* the n-th event of the stream the provider function returns to call c
Event(c, n) == [type |-> "text_delta", call |-> c, seq |-> n]

\* the functions a loaded module can hold: the one the calls name, or none
Exports == {FnNames, {}}

\* a promise a loader returned
Pending(key) == [key |-> key, state |-> "pending", exports |-> {}, reason |-> NoFailure]

InitLazy ==
    /\ NoLazyStream
    /\ diffText = <<>>
    /\ filePath = NoPath
    /\ lines = <<>>
    /\ lang = NoLang
    /\ highlighter = "none"
    /\ i = 0
    /\ result = <<>>
    /\ output = <<>>
    /\ pc = "idle"
    /\ calls = <<>>
    /\ oldContent = <<>>
    /\ newContent = <<>>
    /\ wordDiff = <<>>
    /\ intraLine = [removedLine |-> <<>>, addedLine |-> <<>>]
    /\ ipc = "idle"
    /\ parseLine = <<>>
    /\ parseResult = null
    /\ ppc = "idle"

\* LazyStreamCall that calls the loader again when the promise in the cache
\* was rejected
LazyStreamCallRetrying(c, moduleKey, fnName) ==
    /\ lpc[c] = "uncalled"
    /\ c > 1 => lpc[c - 1] # "uncalled"
    /\ LET cached == moduleCache[moduleKey]
           load == cached = 0 \/ promises[cached].state = "rejected"
           id == IF load THEN Len(promises) + 1 ELSE cached
       IN  /\ promises' = IF load THEN Append(promises, Pending(moduleKey)) ELSE promises
           /\ moduleCache' = [moduleCache EXCEPT ![moduleKey] = id]
           /\ mod' = [mod EXCEPT ![c] = id]
           /\ lazyArgs' = [lazyArgs EXCEPT ![c] =
                              [moduleKey |-> moduleKey, fnName |-> fnName, model |-> "model",
                               found |-> IF cached = 0 THEN "absent"
                                         ELSE promises[cached].state]]
    /\ proxy' = [proxy EXCEPT ![c] = <<>>]
    /\ lpc' = [lpc EXCEPT ![c] = "awaitMod"]
    /\ proxyReturned' = [proxyReturned EXCEPT ![c] = TRUE]
    /\ UNCHANGED <<real, caught>>
    /\ UNCHANGED <<renderVars, intraVars, parseVars>>

\* Lines 147-167, the synchronous part of a call lazyStream(moduleKey, loader,
\* fnName, model, ...): the proxy is created, the promise is taken from the
\* cache or the loader is called and its promise stored, the asynchronous
\* function runs up to its await, and the proxy is returned.
LazyStreamCall(c, moduleKey, fnName) ==
    /\ lpc[c] = "uncalled"
    /\ c > 1 => lpc[c - 1] # "uncalled"
    /\ LET cached == moduleCache[moduleKey]
           id == IF cached = 0 THEN Len(promises) + 1 ELSE cached
       IN  /\ promises' = IF cached = 0 THEN Append(promises, Pending(moduleKey))
                           ELSE promises
           /\ moduleCache' = [moduleCache EXCEPT ![moduleKey] = id]
           /\ mod' = [mod EXCEPT ![c] = id]
           /\ lazyArgs' = [lazyArgs EXCEPT ![c] =
                              [moduleKey |-> moduleKey, fnName |-> fnName, model |-> "model",
                               found |-> IF cached = 0 THEN "absent"
                                         ELSE promises[cached].state]]
    /\ proxy' = [proxy EXCEPT ![c] = <<>>]
    /\ lpc' = [lpc EXCEPT ![c] = "awaitMod"]
    /\ proxyReturned' = [proxyReturned EXCEPT ![c] = TRUE]
    /\ UNCHANGED <<real, caught>>
    /\ UNCHANGED <<renderVars, intraVars, parseVars>>

\* the promise p of a loader settles: the module is loaded, or the load fails
Settle(p) ==
    /\ p \in 1..Len(promises)
    /\ promises[p].state = "pending"
    /\ \/ \E exports \in Exports :
              promises' = [promises EXCEPT ![p].state = "fulfilled", ![p].exports = exports]
       \/ \E err \in Thrown :
              promises' = [promises EXCEPT ![p].state = "rejected", ![p].reason = err]
    /\ UNCHANGED <<moduleCache, lazyArgs, lpc, mod, real, proxy, caught, proxyReturned>>
    /\ UNCHANGED <<renderVars, intraVars, parseVars>>

\* Finish that pushes no error event for the failure caught
FinishSilently(c, failed, err) ==
    /\ proxy' = proxy
    /\ caught' = [caught EXCEPT ![c] = IF failed THEN err ELSE NoFailure]
    /\ lpc' = [lpc EXCEPT ![c] = "finished"]

\* the end of the asynchronous function of call c, with or without a failure
Finish(c, failed, err) ==
    /\ proxy' = IF failed
                THEN [proxy EXCEPT ![c] = emitError(@, lazyArgs[c].model, err)]
                ELSE proxy
    /\ caught' = [caught EXCEPT ![c] = IF failed THEN err ELSE NoFailure]
    /\ lpc' = [lpc EXCEPT ![c] = "finished"]

\* lines 157-158 (and 162-164): the await of call c ends and m[fnName] is
\* called
CallProvider(c) ==
    /\ lpc[c] = "awaitMod"
    /\ promises[mod[c]].state # "pending"
    /\ IF promises[mod[c]].state = "rejected"
       THEN Finish(c, TRUE, promises[mod[c]].reason) /\ UNCHANGED real
       ELSE IF lazyArgs[c].fnName \notin promises[mod[c]].exports
       THEN Finish(c, TRUE, NotAFunction) /\ UNCHANGED real
       ELSE \/ \E err \in Thrown : Finish(c, TRUE, err) /\ UNCHANGED real
            \/ /\ real' = [real EXCEPT ![c] = <<>>]
               /\ lpc' = [lpc EXCEPT ![c] = "iterating"]
               /\ UNCHANGED <<proxy, caught>>
    /\ UNCHANGED <<moduleCache, promises, lazyArgs, mod, proxyReturned>>
    /\ UNCHANGED <<renderVars, intraVars, parseVars>>

\* ForwardEvent that pushes the event to the proxy of every call that awaited
\* the same module
ForwardEventShared(c) ==
    /\ lpc[c] = "iterating"
    /\ Len(real[c]) < MaxEvents
    /\ LET event == Event(c, Len(real[c]) + 1)
       IN  /\ real' = [real EXCEPT ![c] = Append(@, event)]
           /\ proxy' = [d \in Callers |->
                            IF mod[d] = mod[c] THEN Append(proxy[d], event) ELSE proxy[d]]
    /\ UNCHANGED <<moduleCache, promises, lazyArgs, lpc, mod, caught, proxyReturned>>
    /\ UNCHANGED <<renderVars, intraVars, parseVars>>

\* lines 159-161: the stream of call c yields its next event, which is pushed
\* to the proxy; a stream yields at most MaxEvents events
ForwardEvent(c) ==
    /\ lpc[c] = "iterating"
    /\ Len(real[c]) < MaxEvents
    /\ LET event == Event(c, Len(real[c]) + 1)
       IN  /\ real' = [real EXCEPT ![c] = Append(@, event)]
           /\ proxy' = [proxy EXCEPT ![c] = Append(@, event)]
    /\ UNCHANGED <<moduleCache, promises, lazyArgs, lpc, mod, caught, proxyReturned>>
    /\ UNCHANGED <<renderVars, intraVars, parseVars>>

\* lines 159-164: the stream of call c ends, or its iteration throws
EndOfStream(c) ==
    /\ lpc[c] = "iterating"
    /\ \/ Finish(c, FALSE, NoFailure)
       \/ \E err \in Thrown : Finish(c, TRUE, err)
    /\ UNCHANGED <<moduleCache, promises, lazyArgs, mod, real, proxyReturned>>
    /\ UNCHANGED <<renderVars, intraVars, parseVars>>

NextLazy ==
    \/ \E c \in Callers, moduleKey \in ModuleKeys, fnName \in FnNames :
           LazyStreamCall(c, moduleKey, fnName)
    \/ \E p \in Callers : Settle(p)
    \/ \E c \in Callers : CallProvider(c)
    \/ \E c \in Callers : ForwardEvent(c)
    \/ \E c \in Callers : EndOfStream(c)

SpecLazy == InitLazy /\ [][NextLazy]_vars

\* The promise of a loader settles, and the asynchronous function of a call
\* goes on whenever what it awaits has settled; the stream of a provider is
\* finite, it comes to its end.
FairSpecLazy ==
    /\ SpecLazy
    /\ \A p \in Callers : WF_vars(Settle(p))
    /\ \A c \in Callers : WF_vars(CallProvider(c)) /\ WF_vars(EndOfStream(c))

----------------------------------------------------------------------------
(* Vocabulary of the properties *)

\* the k-th input line (1-based) as parseDiffLine reads it, and its category
Parsed(k) == parseDiffLine(lines[k])
IsRaw(k) == Parsed(k) = null
IsRemoved(k) == Parsed(k).prefix = "-"
IsAdded(k) == Parsed(k).prefix = "+"
IsContext(k) == ~IsRaw(k) /\ ~IsRemoved(k) /\ ~IsAdded(k)

\* the number of consecutive removed (added) lines from the k-th line on
RECURSIVE RemovedRun(_)
RemovedRun(k) == IF k <= Len(lines) /\ IsRemoved(k) THEN 1 + RemovedRun(k + 1) ELSE 0
RECURSIVE AddedRun(_)
AddedRun(k) == IF k <= Len(lines) /\ IsAdded(k) THEN 1 + AddedRun(k + 1) ELSE 0

\* A block is a maximal removed run with the maximal added run after it; it
\* starts at a removed line that no removed line precedes.
BlockStarts == {s \in 1..Len(lines) : IsRemoved(s) /\ (s = 1 \/ ~IsRemoved(s - 1))}
BlockEnd(s) == s + RemovedRun(s) + AddedRun(s + RemovedRun(s)) - 1
\* the block has one removed and one added line
OneToOne(s) == RemovedRun(s) = 1 /\ AddedRun(s + 1) = 1
\* the block that starts at s has been rendered
BlockRendered(s) == s \in BlockStarts /\ s <= Len(result)

\* the colour marker of the category of the k-th line, the sign it is rendered
\* with, and the rendered line without styling
ColorOf(k) ==
    IF IsRaw(k) THEN "<toolDiffContext>"
    ELSE IF IsRemoved(k) THEN "<toolDiffRemoved>"
    ELSE IF IsAdded(k) THEN "<toolDiffAdded>"
    ELSE "<toolDiffContext>"
SignOf(k) == IF IsRemoved(k) THEN "-" ELSE IF IsAdded(k) THEN "+" ELSE " "
PlainOf(k) ==
    <<SignOf(k)>> \o Parsed(k).lineNum \o <<" ">> \o replaceTabs(Parsed(k).content)

\* a rendered line all of which lies inside one colour, as intra-line mode and
\* the lines that are no diff lines are rendered
WhollyColoured(line) == line[Len(line)] = "</fg>"

\* the calls made to each collaborator
DiffWordsCalls == {c \in Range(calls) : c.fn = "diffWords"}
HighlightCalls == {c \in Range(calls) : c.fn = "highlightCode"}

\* the number of lines of a text
NumLines(text) == Cardinality({k \in 1..Len(text) : text[k] = "\n"}) + 1

\* text holds a tab escape: a backslash followed by the letter t
HasTabEscape(text) == \E k \in 1..(Len(text) - 1) : text[k] = "\\" /\ text[k + 1] = "t"

----------------------------------------------------------------------------
(* Properties of renderDiff *)

\* C1: renderDiff emits exactly one rendered line per input line (the input
\* split on newline): the result holds as many lines as the input, so does the
\* returned text, and the k-th rendered line carries the colour of the k-th
\* input line's category, so that a block of r removed and a added lines
\* yields r removed lines and then a added lines (2 lines in intra-line mode).
C1_OneLinePerInputLine ==
    pc = "done" =>
        /\ Len(result) = NumLines(diffText)
        /\ NumLines(output) = NumLines(diffText)
        /\ \A k \in 1..Len(lines) : k <= Len(result) /\ result[k][1] = ColorOf(k)

\* a call has returned that rendered an intra-line block and a block of two
\* removed lines
C1_Witness ==
    /\ pc = "done"
    /\ \E s \in BlockStarts : OneToOne(s)
    /\ \E s \in BlockStarts : RemovedRun(s) = 2

\* C2: the pairing decision is count-based: a rendered block went through the
\* word-level diff (one call of diffWords for it, both lines wholly coloured)
\* if and only if its removed run and its added run have length 1, whatever
\* the lines hold; and diffWords is called for nothing else.
C2_CountBasedPairing ==
    /\ \A s \in BlockStarts :
           BlockRendered(s) =>
               /\ OneToOne(s) <=> (\E c \in DiffWordsCalls : c.line = s - 1)
               /\ OneToOne(s) <=> WhollyColoured(result[s])
    /\ \A c \in DiffWordsCalls : c.line + 1 \in BlockStarts /\ OneToOne(c.line + 1)

\* rendered: a one-to-one block whose two lines have the same content, and a
\* block whose added run is empty
C2_Witness ==
    /\ pc = "done"
    /\ \E s \in BlockStarts : OneToOne(s) /\ Parsed(s).content = Parsed(s + 1).content
    /\ \E s \in BlockStarts : AddedRun(s + RemovedRun(s)) = 0

\* C3: in block mode every line of the removed run and then every line of the
\* added run is rendered on its own, in the input's order, with its own
\* line-number token and content and no inversion marker, and diffWords is not
\* called for any line of the block.
C3_BlockMode ==
    \A s \in BlockStarts :
        (BlockRendered(s) /\ ~OneToOne(s)) =>
            \A k \in s..BlockEnd(s) :
                /\ k <= Len(result)
                /\ result[k][1] = ColorOf(k)
                /\ ~WhollyColoured(result[k])
                /\ Strip(result[k]) = PlainOf(k)
                /\ "<inverse>" \notin Range(result[k])
                /\ \A c \in DiffWordsCalls : c.line # k - 1

\* rendered with a highlighter that styles: a block of two removed lines and
\* two different added lines
C3_Witness ==
    /\ pc = "done"
    /\ highlighter = "styled"
    /\ \E s \in BlockStarts :
           /\ RemovedRun(s) = 2 /\ AddedRun(s + 2) = 2
           /\ lines[s + 2] # lines[s + 3]

\* C5 (state): a line that does not match the pattern is rendered as one line
\* in the context colour whose text without styling is the input line
\* unmodified; no collaborator is called for it and it is not the added line
\* of a word-level diff.
C5_RawState ==
    \A k \in 1..Len(result) :
        IsRaw(k) =>
            /\ result[k][1] = "<toolDiffContext>"
            /\ WhollyColoured(result[k])
            /\ Strip(result[k]) = lines[k]
            /\ \A c \in Range(calls) : c.line # k - 1
            /\ \A c \in DiffWordsCalls : c.line # k - 2

\* C5 (step): with such a line at the cursor, the iteration emits one line
\* and advances the cursor by exactly one.
C5_RawStep ==
    (pc = "loop" /\ i < Len(lines) /\ IsRaw(i + 1)) =>
        /\ i' = i + 1
        /\ Len(result') = Len(result) + 1
        /\ calls' = calls

\* C5: every input line that does not match the diff-line pattern is emitted
\* as exactly one context-styled line that equals the input line once styling
\* is stripped, the cursor advances by one, and the line never starts, extends
\* or joins a removed or added run.
C5_RawPassthrough == []C5_RawState /\ [][C5_RawStep]_vars

\* rendered: a line that is no diff line, with a tab escape, between a removed
\* and an added line
C5_Witness ==
    /\ pc = "done"
    /\ \E k \in 2..(Len(lines) - 1) :
           IsRaw(k) /\ HasTabEscape(lines[k]) /\ IsRemoved(k - 1) /\ IsAdded(k + 1)

\* C6: a line that matches the pattern is rendered in the colour of its marker
\* and, without styling, reads sign, line-number token, one space, content
\* (tab escapes replaced); the token is the input's, padding included, in every
\* rendering mode.
C6_CategoryAndForm ==
    \A k \in 1..Len(result) :
        ~IsRaw(k) =>
            /\ result[k][1] = ColorOf(k)
            /\ Strip(result[k]) = PlainOf(k)
            /\ LET n == Len(Strip(result[k])) - Len(replaceTabs(Parsed(k).content)) - 1
               IN  SubSeq(Strip(result[k]), 2, n) = SubSeq(lines[k], 2, n)

\* rendered: a context line, an added line on its own, and an intra-line block
\* whose added line has a padded line-number token
C6_Witness ==
    /\ pc = "done"
    /\ \E k \in 1..Len(lines) : IsContext(k)
    /\ \E k \in 1..Len(lines) : IsAdded(k) /\ (k = 1 \/ IsContext(k - 1))
    /\ \E s \in BlockStarts : OneToOne(s) /\ Parsed(s + 1).lineNum = <<" ", "2">>

\* C8 as claimed: the output is the rendered lines joined with a newline, and
\* an empty input yields an empty output string.
C8_EmptyOutput ==
    pc = "done" =>
        /\ Split(output, "\n") = result
        /\ diffText = <<>> => output = <<>>

\* C8 as amended: the output is the rendered lines joined with a newline, and
\* an empty input yields one context-coloured line with no text, which is
\* empty once its styling is stripped.
C8_JoinedOutput ==
    pc = "done" =>
        /\ Split(output, "\n") = result
        /\ diffText = <<>> =>
               /\ output = <<"<toolDiffContext>", "</fg>">>
               /\ Strip(output) = <<>>

\* a call with the empty text has returned
C8_Witness == pc = "done" /\ diffText = <<>>

C10_PlainFallback ==
    (lang = NoLang \/ highlighter \in {"empty", "throw"}) =>
        /\ ~(pc = "failed" /\ calls[Len(calls)].fn = "highlightCode")
        /\ \A k \in 1..Len(result) :
               (~IsRaw(k) /\ ~WhollyColoured(result[k])) =>
                   result[k] = <<ColorOf(k), SignOf(k)>> \o Parsed(k).lineNum
                                   \o <<"</fg>", " ">> \o replaceTabs(Parsed(k).content)

\* the k-th line belongs to a block of one removed and one added line
InIntraLineBlock(k) == \E s \in BlockStarts : OneToOne(s) /\ k \in {s, s + 1}

\* the number of calls of highlightCode made for the k-th line
HighlightCount(k) ==
    Cardinality({j \in 1..Len(calls) :
                    calls[j].fn = "highlightCode" /\ calls[j].line = k - 1})

\* C11: for the two lines of an intra-line block highlightCode is never
\* called, whether or not a language was resolved: both lines lie wholly in
\* their category's colour and carry no marker but the colour's and the
\* inversion's; for every other rendered line that matches the pattern,
\* highlightCode is called exactly once when a language is resolved and not at
\* all otherwise.
C11_HighlighterUse ==
    \A k \in 1..Len(result) :
        IF InIntraLineBlock(k)
        THEN /\ HighlightCount(k) = 0
             /\ result[k][1] = ColorOf(k)
             /\ WhollyColoured(result[k])
             /\ (Range(result[k]) \cap Markers)
                    \subseteq {ColorOf(k), "</fg>", "<inverse>", "</inverse>"}
        ELSE ~IsRaw(k) => HighlightCount(k) = (IF lang = NoLang THEN 0 ELSE 1)

\* returned, with a language resolved and a highlighter that styles: an
\* intra-line block, a context line and an added line on its own after it
C11_Witness ==
    /\ pc = "done"
    /\ lang # NoLang
    /\ highlighter = "styled"
    /\ \E s \in BlockStarts : OneToOne(s)
    /\ \E k \in 2..Len(lines) : IsContext(k - 1) /\ IsAdded(k)

\* a call of a collaborator threw
Threw == \E j \in 1..Len(calls) : calls[j].ret = "throw"

FollowsRemoved(k) ==
    /\ IsAdded(k)
    /\ \E r \in 1..(k - 1) : IsRemoved(r) /\ \A m \in (r + 1)..(k - 1) : IsAdded(m)

\* C14: runs are maximal: at the head of an iteration the cursor is never
\* inside a removed run nor on an added line of the run that follows a
\* removed run, so a block takes every consecutive removed line and every
\* added line right after them; diffWords pairs a removed line only with the
\* added line next to it; and an added line that does not follow a removed
\* run (a context line or a line that is no diff line lies between) is
\* rendered on its own, outside the colour and without inversion.
C14_MaximalRuns ==
    /\ (pc = "loop" /\ i < Len(lines)) =>
           /\ ~FollowsRemoved(i + 1)
           /\ i > 0 => ~(IsRemoved(i) /\ IsRemoved(i + 1))
    /\ \A c \in DiffWordsCalls :
           /\ IsRemoved(c.line + 1)
           /\ c.line + 2 <= Len(lines) /\ IsAdded(c.line + 2)
           /\ c.text2 = replaceTabs(Parsed(c.line + 2).content)
    /\ \A k \in 1..Len(result) :
           (IsAdded(k) /\ ~FollowsRemoved(k)) =>
               /\ ~WhollyColoured(result[k])
               /\ "<inverse>" \notin Range(result[k])
               /\ Strip(result[k]) = PlainOf(k)
               /\ \A c \in DiffWordsCalls : c.line + 2 # k

\* returned: a run of two removed lines with no added line after it, then a
\* context line, then an added line
C14_Witness ==
    /\ pc = "done"
    /\ \E s \in BlockStarts :
           /\ RemovedRun(s) = 2
           /\ s + 3 <= Len(lines)
           /\ IsContext(s + 2)
           /\ IsAdded(s + 3)

\* the number of input lines a call of a collaborator is made for
LinesOf(c) == IF c.fn = "diffWords" THEN 2 ELSE 1

\* C15: the output follows the input: while the loop runs the number of
\* rendered lines equals the cursor, never more than the number of input
\* lines; the k-th rendered line is the rendering of the k-th input line
\* (its category's colour and, without styling, the line itself or its sign,
\* token, space and content); and the calls made go forward through the
\* lines, no line being handed to a collaborator twice.
C15_InputOrder ==
    /\ pc \in {"loop", "done"} => Len(result) = i
    /\ Len(result) <= Len(lines)
    /\ \A k \in 1..Len(result) :
           /\ result[k][1] = ColorOf(k)
           /\ Strip(result[k]) = (IF IsRaw(k) THEN lines[k] ELSE PlainOf(k))
    /\ \A j, h \in 1..Len(calls) :
           j < h => calls[j].line + LinesOf(calls[j]) <= calls[h].line

\* at the head of an iteration, after an intra-line block and a context line
\* were rendered in this order, with a line still to render
C15_Witness ==
    /\ pc = "loop"
    /\ i = 3
    /\ i < Len(lines)
    /\ OneToOne(1)
    /\ IsContext(3)
    /\ lang # NoLang

\* C16 (state): the cursor never exceeds the number of lines; renderDiff
\* returns with the cursor equal to the number of lines; and with a removed
\* line at the cursor the removed run collected holds at least that line and
\* the two runs end within the lines.
C16_CursorState ==
    /\ i <= Len(lines)
    /\ pc = "done" => i = Len(lines)
    /\ (pc = "loop" /\ i < Len(lines) /\ IsRemoved(i + 1)) =>
           LET removedLines == collectRun(lines, i, "-")
               addedLines == collectRun(lines, i + Len(removedLines), "+")
           IN  /\ Len(removedLines) >= 1
               /\ removedLines[1].content = Parsed(i + 1).content
               /\ i + Len(removedLines) + Len(addedLines) <= Len(lines)

\* C16 (step): the cursor never moves backwards, and every iteration that
\* completes advances it by at least one line, so that the distance to the
\* end of the lines decreases and the loop runs at most once per line.
C16_CursorStep ==
    /\ i' >= i
    /\ (pc = "loop" /\ pc' = "loop") =>
           /\ i' > i
           /\ Len(lines') - i' < Len(lines) - i
    /\ pc = "loop" => pc' \in {"loop", "done", "failed"}
    /\ pc' = "done" => pc = "loop" /\ i = Len(lines)

\* C16: the rendering pass always terminates: every iteration advances the
\* cursor by at least one line (in the removed branch the removed run
\* contains at least the line at the cursor), the cursor never moves
\* backwards and never exceeds the number of lines, and the loop ends with
\* the cursor equal to the number of lines.
C16_Terminates == []C16_CursorState /\ [][C16_CursorStep]_vars

\* returned after four iterations on four lines
C16_Witness ==
    /\ pc = "done"
    /\ i = MaxLines
    /\ \A k \in 1..Len(lines) : IsContext(k) \/ IsRaw(k)

----------------------------------------------------------------------------
(* Properties of parseDiffLine *)

\* The ways to read a line as a marker from markers, a token that is a run of
\* characters from blanks and then a run of digits if ordered, any mixture of
\* the two otherwise, one separator from separators, and a remaining text
\* without a character from excluded.
Readings(ln, markers, blanks, ordered, separators, excluded) ==
    {[prefix |-> ln[1], lineNum |-> SubSeq(ln, 2, 1 + t), content |-> Drop(ln, 3 + t)] :
        t \in {t \in 0..(Len(ln) - 2) :
                  /\ ln[1] \in markers
                  /\ \A k \in 2..(1 + t) : ln[k] \in blanks \cup Digits
                  /\ ordered =>
                         \A k, h \in 2..(1 + t) :
                             (k < h /\ ln[k] \in Digits) => ln[h] \in Digits
                  /\ ln[2 + t] \in separators
                  /\ \A k \in (3 + t)..Len(ln) : ln[k] \notin excluded}}

\* the readings the claim describes: a sign or a space, a token of spaces and
\* digits, one space, any text
ClaimedReadings(ln) == Readings(ln, {"+", "-", " "}, {" "}, FALSE, {" "}, {})

\* the readings of the regular expression: a sign or any whitespace
\* character, a run of whitespace and then a run of digits, one whitespace
\* character, a text without a line terminator
PatternReadings(ln) ==
    Readings(ln, {"+", "-"} \cup Whitespace, Whitespace, TRUE, Whitespace, LineTerminators)

\* C12 as claimed: parseDiffLine succeeds exactly on the lines that are a
\* sign or the blank marker, a token of blank and digit characters, one
\* separating space and any remaining text, and returns such a reading.
C12_ParseAsClaimed ==
    ppc = "returned" =>
        /\ parseResult # null <=> ClaimedReadings(parseLine) # {}
        /\ parseResult # null => parseResult \in ClaimedReadings(parseLine)

\* C12 as amended: parseDiffLine succeeds exactly on the lines that are a
\* sign or one whitespace character of any kind, a token that is a run of
\* whitespace followed by a run of digits (both possibly empty), one
\* separating whitespace character of any kind, and a remaining text that
\* holds no line terminator; it returns the reading with the longest token,
\* and the not-a-diff-line result on every other line.
C12_ParsePattern ==
    ppc = "returned" =>
        /\ parseResult # null <=> PatternReadings(parseLine) # {}
        /\ parseResult # null =>
               /\ parseResult \in PatternReadings(parseLine)
               /\ \A r \in PatternReadings(parseLine) : Len(r.lineNum) <= Len(parseResult.lineNum)
               /\ parseLine = <<parseResult.prefix>> \o parseResult.lineNum
                             \o <<parseLine[2 + Len(parseResult.lineNum)]>> \o parseResult.content

\* returned from a line with more than one reading: the token returned is a
\* whitespace character and a digit, and a tab separates it from the content
C12_Witness ==
    /\ ppc = "returned"
    /\ Cardinality(PatternReadings(parseLine)) > 1
    /\ parseResult # null
    /\ parseResult.lineNum = <<" ", "1">>
    /\ parseLine[4] = "\t"

----------------------------------------------------------------------------
(* Properties of renderIntraLineDiff *)

\* the sequences of a sequence, one after the other
RECURSIVE Flatten(_)
Flatten(ss) == IF ss = <<>> THEN <<>> ELSE Head(ss) \o Flatten(Tail(ss))

\* the old and the new text the parts stand for
OldOf(parts) ==
    Flatten([j \in 1..Len(parts) |-> IF parts[j].added THEN <<>> ELSE parts[j].value])
NewOf(parts) ==
    Flatten([j \in 1..Len(parts) |-> IF parts[j].removed THEN <<>> ELSE parts[j].value])

\* a part that differs on the side "removed" or "added", and the first such
\* part of the sequence
Differs(part, side) == IF side = "removed" THEN part.removed ELSE part.added
IsFirst(parts, j, side) ==
    Differs(parts[j], side) /\ \A h \in 1..(j - 1) : ~Differs(parts[h], side)

\* the length of the whitespace a text starts with
WsPrefix(text) ==
    CHOOSE n \in 0..Len(text) :
        /\ \A j \in 1..n : text[j] \in Whitespace
        /\ n < Len(text) => text[n + 1] \notin Whitespace

\* what the j-th part adds to the line of a side: an unchanged part its text,
\* the first differing part its leading whitespace and then the rest
\* inverted, a later differing part all of its text inverted, a part of the
\* other side nothing
PieceOf(parts, j, side) ==
    LET value == parts[j].value
        n == WsPrefix(value)
    IN  IF ~parts[j].removed /\ ~parts[j].added THEN value
        ELSE IF ~Differs(parts[j], side) THEN <<>>
        ELSE IF IsFirst(parts, j, side)
        THEN Take(value, n)
                 \o (IF n < Len(value) THEN themeInverse(Drop(value, n + 1)) ELSE <<>>)
        ELSE themeInverse(value)
LineOf(parts, side) == Flatten([j \in 1..Len(parts) |-> PieceOf(parts, j, side)])

\* C4: for a part sequence that satisfies the invariant of the parts, the
\* removed line without its markers is the removed content and the added line
\* without its markers is the added content.
C4_StrippedIsContent ==
    (ipc = "returned" /\ OldOf(wordDiff) = oldContent /\ NewOf(wordDiff) = newContent) =>
        /\ Strip(intraLine.removedLine) = oldContent
        /\ Strip(intraLine.addedLine) = newContent

\* returned from a diff of three parts whose first removed part starts with
\* whitespace and goes on with a letter
C4_Witness ==
    /\ ipc = "returned"
    /\ Len(wordDiff) = 3
    /\ \E j \in 1..Len(wordDiff) :
           /\ IsFirst(wordDiff, j, "removed")
           /\ 0 < WsPrefix(wordDiff[j].value)
           /\ WsPrefix(wordDiff[j].value) < Len(wordDiff[j].value)

\* C7: the leading-whitespace exemption applies to the first removed part
\* and to the first added part of the whole sequence only: each line is made
\* of the pieces of the parts, a later differing part being inverted in full.
C7_FirstPartOnly ==
    ipc = "returned" =>
        /\ intraLine.removedLine = LineOf(wordDiff, "removed")
        /\ intraLine.addedLine = LineOf(wordDiff, "added")

\* returned from a diff whose first removed part holds whitespace only and
\* which has a later removed part that starts with whitespace
C7_Witness ==
    /\ ipc = "returned"
    /\ \E j, h \in 1..Len(wordDiff) :
           /\ j < h
           /\ IsFirst(wordDiff, j, "removed")
           /\ WsPrefix(wordDiff[j].value) = Len(wordDiff[j].value)
           /\ wordDiff[h].removed
           /\ WsPrefix(wordDiff[h].value) > 0

----------------------------------------------------------------------------
(* Properties of lazyStream *)

\* the calls of lazyStream made so far, and the loads started for a key
Called == {c \in Callers : lpc[c] # "uncalled"}
LoadsOf(key) == {p \in 1..Len(promises) : promises[p].key = key}

\* C17: for each module key the loader is called at most once, whatever the
\* calls and their interleaving: the promise is in the cache when the
\* synchronous part of the first call ends, every call for the key awaits that
\* same promise, whether it found it pending, fulfilled or rejected, and only
\* a call that found no promise started a load.
C17_SingleLoad ==
    /\ \A key \in ModuleKeys :
           /\ Cardinality(LoadsOf(key)) <= 1
           /\ Cardinality(LoadsOf(key)) =
                  Cardinality({c \in Called : lazyArgs[c].moduleKey = key
                                                /\ lazyArgs[c].found = "absent"})
           /\ moduleCache[key] = 0 <=> LoadsOf(key) = {}
    /\ \A c \in Called :
           /\ mod[c] # 0
           /\ mod[c] = moduleCache[lazyArgs[c].moduleKey]
           /\ promises[mod[c]].key = lazyArgs[c].moduleKey
    /\ \A c, d \in Called :
           lazyArgs[c].moduleKey = lazyArgs[d].moduleKey => mod[c] = mod[d]

\* two calls for the same key: the second found the promise of the first
\* rejected and awaits it
C17_Witness ==
    /\ Called = {1, 2}
    /\ lazyArgs[1].moduleKey = lazyArgs[2].moduleKey
    /\ lazyArgs[1].found = "absent"
    /\ lazyArgs[2].found = "rejected"
    /\ mod[2] = mod[1]

\* the events pushed to the proxy of call c that emitError did not make
Forwarded(c) == SelectSeq(proxy[c], LAMBDA e : e.type # "error")

\* a is a prefix of b
IsPrefix(a, b) == Len(a) <= Len(b) /\ a = SubSeq(b, 1, Len(a))

\* C18: at every moment the events forwarded to the proxy of a call are a
\* prefix of the events its own stream has yielded, in the same order, none
\* dropped, repeated or reordered (all of them, whenever the stream is being
\* read), and an event of the stream of one call is never in the proxy of
\* another, even when the two calls await the same module.
C18_FaithfulForwarding ==
    \A c \in Callers :
        /\ IsPrefix(Forwarded(c), real[c])
        /\ Forwarded(c) = real[c]
        /\ \A k \in 1..Len(proxy[c]) :
               proxy[c][k].type # "error" =>
                   proxy[c][k].call = c /\ proxy[c][k].seq = k
        /\ \A d \in Callers \ {c} :
               \A k \in 1..Len(proxy[d]) : proxy[d][k] \notin Range(real[c])

\* two calls that awaited the same module are reading their streams: two
\* events of the first and one of the second have been forwarded
C18_Witness ==
    /\ lpc[1] = "iterating" /\ lpc[2] = "iterating"
    /\ mod[1] = mod[2]
    /\ Len(proxy[1]) = 2
    /\ Len(proxy[2]) = 1

\* the positions of the error events in the proxy of call c
ErrorsIn(c) == {k \in 1..Len(proxy[c]) : proxy[c][k].type = "error"}

\* C19: a failure never leaves lazyStream as an exception, it ends the call
\* with one error event. The proxy of a call holds one error event if its
\* asynchronous function caught a failure and none otherwise; the error event
\* is the last event pushed, after the events forwarded until then, with
\* stopReason "error", no content, zero usage and the message of the failure
\* (the rejection of the load, the missing function, or what the function or
\* the stream threw); and a call whose load was rejected or whose function is
\* missing has caught that failure.
C19_ErrorsBecomeEvents ==
    \A c \in Callers :
        /\ lpc[c] \in {"uncalled", "awaitMod", "iterating", "finished"}
        /\ Cardinality(ErrorsIn(c)) = (IF caught[c] # NoFailure THEN 1 ELSE 0)
        /\ caught[c] # NoFailure =>
               LET e == proxy[c][Len(proxy[c])]
               IN  /\ lpc[c] = "finished"
                   /\ ErrorsIn(c) = {Len(proxy[c])}
                   /\ SubSeq(proxy[c], 1, Len(proxy[c]) - 1) = real[c]
                   /\ e.reason = "error"
                   /\ e.error.stopReason = "error"
                   /\ e.error.content = <<>>
                   /\ e.error.usage.input = 0 /\ e.error.usage.output = 0
                   /\ e.error.usage.totalTokens = 0 /\ e.error.usage.cost = 0
                   /\ e.error.model = lazyArgs[c].model
                   /\ e.error.errorMessage =
                          (IF caught[c].isError THEN caught[c].message ELSE "42")
        /\ (lpc[c] = "finished" /\ promises[mod[c]].state = "rejected") =>
               caught[c] = promises[mod[c]].reason /\ proxy[c] = <<proxy[c][1]>>
        /\ (lpc[c] \in {"iterating", "finished"} /\ promises[mod[c]].state = "fulfilled"
               /\ lazyArgs[c].fnName \notin promises[mod[c]].exports) =>
               lpc[c] = "finished" /\ caught[c] = NotAFunction

\* the stream of a call threw a value that is no Error after one event was
\* forwarded
C19_Witness ==
    \E c \in Callers :
        /\ lpc[c] = "finished"
        /\ caught[c] \in Thrown
        /\ ~caught[c].isError
        /\ Len(proxy[c]) = 2
        /\ proxy[c][1] = Event(c, 1)

\* the forwarding of call c is complete: its asynchronous function is over and
\* the proxy has received every event of the stream, which ended, or an error
\* event as its last event
Completed(c) ==
    /\ lpc[c] = "finished"
    /\ IF caught[c] = NoFailure
       THEN proxy[c] = real[c]
       ELSE proxy[c] # <<>> /\ proxy[c][Len(proxy[c])].type = "error"

\* C20 (state): nothing is pushed to a proxy that lazyStream has not returned.
C20_ReturnedFirst ==
    \A c \in Callers : (proxy[c] # <<>> \/ lpc[c] # "uncalled") => proxyReturned[c]

\* C20 (step): when lazyStream returns the proxy nothing has been pushed to
\* it, the asynchronous function being at its await of the module.
C20_ReturnStep ==
    \A c \in Callers :
        (~proxyReturned[c] /\ proxyReturned'[c]) =>
            proxy'[c] = <<>> /\ lpc'[c] = "awaitMod"

\* C20: every call of lazyStream completes its forwarding, provided the
\* promise of the module settles and the stream of the provider comes to an
\* end: from the call on, the proxy eventually has received every event of the
\* stream or an error event; and the proxy is returned to the caller before
\* anything is pushed to it.
C20_Completes ==
    /\ []C20_ReturnedFirst
    /\ [][C20_ReturnStep]_vars
    /\ \A c \in Callers : (lpc[c] = "awaitMod") ~> Completed(c)

\* a call that found the promise of the module pending has completed: the
\* two events of its stream are in its proxy
C20_Witness ==
    \E c \in Callers :
        /\ Completed(c)
        /\ caught[c] = NoFailure
        /\ lazyArgs[c].found = "pending"
        /\ Len(proxy[c]) = 2

====
